---- MODULE Spec2Model ----
(***************************************************************************)
(* A model of the LunaUI widgets of src/src/menu/index.ts: the Menu        *)
(* (show / hide / submenus / highlight / positionContent) and the DataGrid *)
(* (updateWeights / applyColumnWeights / header-click sort and the         *)
(* naturalOrderComparator).                                                *)
(*                                                                         *)
(* The file holds five independent state machines over disjoint groups of  *)
(* variables; each specification runs one of them and leaves the other     *)
(* groups at their idle values:                                            *)
(*   SpecCmp    naturalOrderComparator applied to two strings              *)
(*   SpecPos    Menu.positionContent applied to one anchor point           *)
(*   SpecMenu   the Menu tree: show, hide, hideAll, mouse events           *)
(*   SpecGrid   DataGrid.updateWeights / applyColumnWeights under resizes  *)
(*   SpecSort   DataGrid.append and the header click handler / sortNodes   *)
(*                                                                         *)
(* Strings are sequences of UTF-16 code units (numbers).  JavaScript       *)
(* numbers are modelled by exact integers / rationals: no value of the     *)
(* model comes near 2^53 or the int32 range of "| 0".                      *)
(***************************************************************************)
EXTENDS Integers, Sequences, FiniteSets, TLC

VARIABLES
  \* ---- naturalOrderComparator
  a, b, ret, cmpPc,
  \* ---- Menu.positionContent
  pos, css, posPc,
  \* ---- Menu
  attached, subMenu, gen, highlighted, active, glassPane,
  \* ---- DataGrid layout
  weight, columnWidthsInitialized, tableWidth, colWidths, mounted,
  \* ---- DataGrid sort
  nodes, order, lastId, lastAscending

cmpVars  == <<a, b, ret, cmpPc>>
posVars  == <<pos, css, posPc>>
menuVars == <<attached, subMenu, gen, highlighted, active, glassPane>>
gridVars == <<weight, columnWidthsInitialized, tableWidth, colWidths, mounted>>
sortVars == <<nodes, order, lastId, lastAscending>>
vars     == <<cmpVars, posVars, menuVars, gridVars, sortVars>>

Max(p, q) == IF p >= q THEN p ELSE q
Min(p, q) == IF p <= q THEN p ELSE q

(***************************************************************************)
(* naturalOrderComparator                                                  *)
(***************************************************************************)

\* Longest string the comparator is applied to.
MaxLen == 3

\* Code units used to build strings: " ", "0", "1", "_", "a".
Alphabet == {32, 48, 49, 95, 97}

Underscore == 95

Strings == UNION {[1..n -> Alphabet] : n \in 0..MaxLen}

\* \d of the regular expression
IsDigit(c) == c \in 48..57

\* white space that Number() strips from a string before converting it
IsWhiteSpace(c) == c \in {9, 10, 11, 12, 13, 32, 160}

\* licia startWith(s, '_')
StartWith(s, c) == Len(s) > 0 /\ s[1] = c

\* length of the match of /^\d+|^\D+/ on a non-empty string
RECURSIVE RunLen(_, _, _)
RunLen(s, i, d) ==
  IF i > Len(s) \/ IsDigit(s[i]) # d THEN i - 1 ELSE RunLen(s, i + 1, d)

\* s.match(chunk)[0]
Chunk(s) == SubSeq(s, 1, RunLen(s, 1, IsDigit(s[1])))

\* s.substring(n)
Substring(s, n) == SubSeq(s, n + 1, Len(s))

\* isNaN(chunk): Number(chunk) is a number for a run of digits, and also for
\* a run of white space (which converts to 0); any other run of non-digits
\* over the alphabet converts to NaN.
IsNaN(c) == ~ ((\A i \in 1..Len(c) : IsDigit(c[i]))
               \/ (\A i \in 1..Len(c) : IsWhiteSpace(c[i])))

\* Number(chunk) for a chunk with ~IsNaN(chunk)
RECURSIVE DigitsValue(_)
DigitsValue(c) ==
  IF c = <<>> THEN 0
  ELSE 10 * DigitsValue(SubSeq(c, 1, Len(c) - 1)) + (c[Len(c)] - 48)

ToNumber(c) == IF \A i \in 1..Len(c) : IsDigit(c[i]) THEN DigitsValue(c) ELSE 0

\* chunka < chunkb on strings: code-unit lexicographic order
RECURSIVE StrLess(_, _)
StrLess(s, t) ==
  IF t = <<>> THEN FALSE
  ELSE IF s = <<>> THEN TRUE
  ELSE IF s[1] # t[1] THEN s[1] < t[1]
  ELSE StrLess(Tail(s), Tail(t))

NumericDiffLexical(chunka, chunkb) ==
  IF chunka = chunkb THEN 0 ELSE IF StrLess(chunka, chunkb) THEN -1 ELSE 1

\* const diff = chunka - chunkb
NumericDiff(chunka, chunkb) == ToNumber(chunka) - ToNumber(chunkb)

LengthTieBreakSwapped(chunka, chunkb) ==
  IF ToNumber(chunka) = 0 /\ ToNumber(chunkb) = 0
    THEN Len(chunkb) - Len(chunka)
    ELSE Len(chunka) - Len(chunkb)

\* the result for two numeric chunks of equal value and different lengths
LengthTieBreak(chunka, chunkb) ==
  IF ToNumber(chunka) = 0 /\ ToNumber(chunkb) = 0
    THEN Len(chunka) - Len(chunkb)
    ELSE Len(chunkb) - Len(chunka)

\* the while (true) loop
RECURSIVE CompareLoop(_, _)
CompareLoop(s, t) ==
  IF s # <<>> /\ t = <<>> THEN 1
  ELSE IF s = <<>> THEN (IF t # <<>> THEN -1 ELSE 0)
  ELSE
    LET chunka == Chunk(s)
        chunkb == Chunk(t)
        anum   == ~IsNaN(chunka)
        bnum   == ~IsNaN(chunkb)
        rest   == CompareLoop(Substring(s, Len(chunka)), Substring(t, Len(chunkb)))
    IN  IF anum /\ ~bnum THEN -1
        ELSE IF bnum /\ ~anum THEN 1
        ELSE IF anum /\ bnum
          THEN IF NumericDiff(chunka, chunkb) # 0
                 THEN NumericDiff(chunka, chunkb)
               ELSE IF Len(chunka) # Len(chunkb)
                 THEN LengthTieBreak(chunka, chunkb)
               ELSE rest
        ELSE IF chunka # chunkb
          THEN (IF StrLess(chunka, chunkb) THEN -1 ELSE 1)
        ELSE rest

naturalOrderComparator(s, t) ==
  IF StartWith(s, Underscore) /\ ~StartWith(t, Underscore) THEN 1
  ELSE IF StartWith(t, Underscore) /\ ~StartWith(s, Underscore) THEN -1
  ELSE CompareLoop(s, t)

Compare ==
  /\ cmpPc = "call"
  /\ ret' = naturalOrderComparator(a, b)
  /\ cmpPc' = "done"
  /\ UNCHANGED <<a, b>>
  /\ UNCHANGED <<posVars, menuVars, gridVars, sortVars>>

(***************************************************************************)
(* Menu.positionContent                                                    *)
(***************************************************************************)

\* Largest window.innerWidth / innerHeight; a menu's natural size goes one
\* beyond it.
MaxWin == 3

\* Largest measuredScrollbarWidth().
MaxScrollbar == 1

\* top += 30 for a menu shown under a parent
ParentTopNudge == 30

NoParent == -1

\* One call positionContent(x, y, parent) in one environment: the window,
\* the scrollbar thickness, $container.offset() and, with a parent, the
\* parent's $container.offset().width (parent = NoParent: no parent).
PosInputs ==
  {r \in [winWidth : 1..MaxWin, winHeight : 1..MaxWin,
          scrollbarSize : 0..MaxScrollbar,
          x : 0..MaxWin, y : 0..MaxWin,
          offsetWidth : 0..(MaxWin + 1), offsetHeight : 0..(MaxWin + 1),
          parent : {NoParent} \cup 0..MaxWin] :
     r.x <= r.winWidth /\ r.y <= r.winHeight}

\* width = Math.min(width, offset.width + widthOverflow)
ContentWidth(in) ==
  LET widthOverflow == IF in.winHeight < in.offsetHeight THEN in.scrollbarSize ELSE 0
  IN  Min(in.winWidth, in.offsetWidth + widthOverflow)

\* height = Math.min(height, offset.height + heightOverflow)
ContentHeight(in) ==
  LET heightOverflow == IF in.winWidth < in.offsetWidth THEN in.scrollbarSize ELSE 0
  IN  Min(in.winHeight, in.offsetHeight + heightOverflow)

ParentWidth(in) == IF in.parent # NoParent THEN in.parent ELSE 0

PositionLeftIgnoringParent(x, width, parentWidth, winWidth) ==
  LET right == winWidth - x
  IN  IF right < width /\ x > right THEN x - width - parentWidth ELSE x

\* left, lines 62-68
PositionLeft(x, width, parentWidth, winWidth) ==
  LET right == winWidth - x
  IN  IF right < width /\ x - parentWidth > right
        THEN x - width - parentWidth
        ELSE x

\* top, lines 63-78
PositionTop(y, height, hasParent, winHeight) ==
  LET bottom == winHeight - y
  IN  IF bottom < height
        THEN IF y > height
               THEN (y - height) + (IF hasParent THEN ParentTopNudge ELSE 0)
               ELSE y - (height - bottom)
        ELSE y

\* the object handed to $container.css
positionContent(in) ==
  LET width  == ContentWidth(in)
      height == ContentHeight(in)
  IN  [width  |-> width,
       height |-> height,
       left   |-> PositionLeft(in.x, width, ParentWidth(in), in.winWidth),
       top    |-> PositionTop(in.y, height, in.parent # NoParent, in.winHeight)]

NoCss == [width |-> 0, height |-> 0, left |-> 0, top |-> 0]

NoPos == [winWidth |-> 1, winHeight |-> 1, scrollbarSize |-> 0, x |-> 0, y |-> 0,
          offsetWidth |-> 0, offsetHeight |-> 0, parent |-> NoParent]

Position ==
  /\ posPc = "call"
  /\ css' = positionContent(pos)
  /\ posPc' = "done"
  /\ UNCHANGED pos
  /\ UNCHANGED <<cmpVars, menuVars, gridVars, sortVars>>

(***************************************************************************)
(* Menu: show, hide, hideAll, submenus, highlight                          *)
(*                                                                         *)
(* The application holds the top-level menu "root" and calls its public    *)
(* methods; the other menus are the submenus of items and are shown and    *)
(* hidden by their parent's handlers.  show() builds new item elements on  *)
(* every call: an element is named by its menu, its item and the number of *)
(* the show() call that built it.  The css that positionContent writes is  *)
(* not part of this state machine (SpecPos).                               *)
(***************************************************************************)

\* show() calls per menu.
MaxGen == 2

Menus == {"root", "sub1", "sub2", "sub3"}

None == "none"

\* menuItems after the application's append() calls
MenuItems ==
  [root |-> << [type |-> "submenu",   submenu |-> "sub1", click |-> FALSE],
               [type |-> "submenu",   submenu |-> "sub2", click |-> FALSE],
               [type |-> "separator", submenu |-> None,   click |-> FALSE],
               [type |-> "normal",    submenu |-> None,   click |-> TRUE] >>,
   sub1 |-> << [type |-> "submenu",   submenu |-> "sub3", click |-> FALSE],
               [type |-> "normal",    submenu |-> None,   click |-> TRUE] >>,
   sub2 |-> << [type |-> "normal",    submenu |-> None,   click |-> FALSE] >>,
   sub3 |-> << [type |-> "normal",    submenu |-> None,   click |-> TRUE] >>]

\* the item elements createMenuItem gives handlers to
ItemsOf(m) == {i \in 1..Len(MenuItems[m]) : MenuItems[m][i].type # "separator"}

Elements == {[menu |-> m, item |-> i, gen |-> g] :
               m \in Menus, i \in 1..4, g \in 1..(MaxGen + 1)}

NoEl == [menu |-> None, item |-> 0, gen |-> 0]

\* the state of all menus and of the document, as one value
MenuState ==
  [attached |-> attached, subMenu |-> subMenu, gen |-> gen,
   highlighted |-> highlighted, active |-> active, glassPane |-> glassPane]

RECURSIVE hide(_, _)

\* hideSubMenu()
hideSubMenu(st, m) ==
  IF st.subMenu[m] # None
    THEN [hide(st, st.subMenu[m]) EXCEPT !.subMenu[m] = None]
    ELSE st

\* hide(): $container.remove(), then hideSubMenu()
hide(st, m) == hideSubMenu([st EXCEPT !.attached = @ \ {m}], m)

\* createGlassPane(): the pane found in the document, or a new one appended
\* to document.body with hideAll as its click listener
createGlassPane(st) == [st EXCEPT !.glassPane = TRUE]

\* show(x, y, parent)
show(st, m) ==
  LET hidden   == hide(st, m)
      rendered == [hidden EXCEPT !.gen[m] = @ + 1]
      pane     == createGlassPane(rendered)
  IN  [pane EXCEPT !.attached = @ \cup {m}]

\* hideAll(): $('.grass-pane').html('').remove()
hideAll(st) ==
  IF st.glassPane
    THEN [st EXCEPT !.attached = {}, !.glassPane = FALSE]
    ELSE st

\* showSubMenu(subMenu, $el)
showSubMenu(st, m, s) == [show(st, s) EXCEPT !.subMenu[m] = s]

highlightKeepingOld(st, m, el) ==
  IF st.highlighted[m] = el THEN st
  ELSE [st EXCEPT !.active = IF el # NoEl THEN @ \cup {el} ELSE @,
                  !.highlighted[m] = el]

\* highlight($el)
highlight(st, m, el) ==
  IF st.highlighted[m] = el THEN st
  ELSE [st EXCEPT !.active = (IF el # NoEl THEN @ \cup {el} ELSE @)
                               \ (IF st.highlighted[m] # NoEl
                                    THEN {st.highlighted[m]} ELSE {}),
                  !.highlighted[m] = el]

closeOtherSubMenuNever(st, m, s) == st

\* if (item.submenu !== this.subMenu) this.hideSubMenu()
closeOtherSubMenu(st, m, s) ==
  IF s # st.subMenu[m] THEN hideSubMenu(st, m) ELSE st

\* the mouseover handler of item i of menu m, on element el
onMouseOver(st, m, i, el) ==
  LET item == MenuItems[m][i]
      lit  == highlight(st, m, el)
  IN  IF item.submenu # None
        THEN showSubMenu(closeOtherSubMenu(lit, m, item.submenu), m, item.submenu)
        ELSE hideSubMenu(lit, m)

\* the mouseleave handler of item i of menu m
onMouseLeave(st, m, i) ==
  IF st.subMenu[m] = None \/ st.subMenu[m] # MenuItems[m][i].submenu
    THEN highlight(st, m, NoEl)
    ELSE st

SetMenuState(st) ==
  /\ UNCHANGED <<cmpVars, posVars, gridVars, sortVars>>
  /\ attached' = st.attached
  /\ subMenu' = st.subMenu
  /\ gen' = st.gen
  /\ highlighted' = st.highlighted
  /\ active' = st.active
  /\ glassPane' = st.glassPane

\* the element of item i that menu m shows now
CurrentEl(m, i) == [menu |-> m, item |-> i, gen |-> gen[m]]

\* the application calls root.show(x, y)
Show ==
  /\ gen["root"] < MaxGen
  /\ SetMenuState(show(MenuState, "root"))

\* the application calls root.hide()
Hide ==
  /\ "root" \in attached
  /\ SetMenuState(hide(MenuState, "root"))

\* the application calls root.hideAll()
HideAll == 
  /\ glassPane
  /\ SetMenuState(hideAll(MenuState))

\* a click on the glass pane outside every menu (a click inside a menu's
\* container is stopped by bindEvent)
GlassPaneClick ==
  /\ glassPane
  /\ SetMenuState(hideAll(MenuState))

\* mouseover on an item element of a menu in the document
MouseOver(m, i) ==
  /\ m \in attached
  /\ i \in ItemsOf(m)
  /\ MenuItems[m][i].submenu # None => gen[MenuItems[m][i].submenu] < MaxGen
  /\ SetMenuState(onMouseOver(MenuState, m, i, CurrentEl(m, i)))

\* mouseleave on an item element of a menu in the document
MouseLeave(m, i) ==
  /\ m \in attached
  /\ i \in ItemsOf(m)
  /\ SetMenuState(onMouseLeave(MenuState, m, i))

\* click on an item element that has a click handler: item.click(), hideAll()
ItemClick(m, i) ==
  /\ m \in attached
  /\ i \in ItemsOf(m)
  /\ MenuItems[m][i].click
  /\ SetMenuState(hideAll(MenuState))

(***************************************************************************)
(* DataGrid: updateWeights and applyColumnWeights                          *)
(*                                                                         *)
(* A weight is a rational number num/den in lowest terms: an explicit      *)
(* weight w is w/1, an inferred one is (100 * thWidth) / tableWidth.  A    *)
(* column constructed without a weight (undefined, or 0: both fail the     *)
(* test !column.weight) holds 0/1 until it is inferred.                    *)
(***************************************************************************)

\* Largest explicit column weight.
MaxWeight == 2

\* Largest offsetWidth of a header cell at the time of the inference.
MaxTh == 2

\* container.offsetWidth is 0..SmallWidth or a multiple of WidthStep up to
\* MaxSteps * WidthStep.
SmallWidth == 1
WidthStep == 24
MaxSteps == 2

\* const minColumnWidth = 14
minColumnWidth == 14

\* options.columns of the grid (the weights are drawn per instance)
Columns ==
  << [id |-> "name", sortable |-> TRUE],
     [id |-> "site", sortable |-> TRUE],
     [id |-> "size", sortable |-> FALSE] >>

ColumnIndex == 1..Len(Columns)

Widths == (0..SmallWidth) \cup {WidthStep * k : k \in 1..MaxSteps}

RECURSIVE GCD(_, _)
GCD(p, q) == IF q = 0 THEN p ELSE GCD(q, p % q)

Rat(n, d) == LET g == GCD(n, d) IN [num |-> n \div g, den |-> d \div g]

RatAdd(p, q) == Rat(p.num * q.den + q.num * p.den, p.den * q.den)

Zero == Rat(0, 1)

\* (sum * tableWidth / sumOfWeights) | 0; a division by a zero total gives
\* NaN (0/0), and NaN | 0 is 0
TargetOffset(sum, total, w) ==
  IF total.num = 0 THEN 0
  ELSE (sum.num * w * total.den) \div (sum.den * total.num)

\* sumOfWeights, lines 354-358
RECURSIVE SumOfWeights(_, _)
SumOfWeights(ws, n) == IF n = 0 THEN Zero ELSE RatAdd(SumOfWeights(ws, n - 1), ws[n])

\* the loop of lines 363-372 from column i on: the widths of the col elements
RECURSIVE ColumnLoop(_, _, _, _, _)
ColumnLoop(ws, w, i, sum, lastOffset) ==
  IF i > Len(ws) THEN <<>>
  ELSE LET sum2   == RatAdd(sum, ws[i])
           offset == TargetOffset(sum2, SumOfWeights(ws, Len(ws)), w)
           width  == Max(offset - lastOffset, minColumnWidth)
       IN  <<width>> \o ColumnLoop(ws, w, i + 1, sum2, offset)

\* applyColumnWeights(): the new content of the colgroup
applyColumnWeights(ws, w, old) ==
  IF w <= 0 THEN old ELSE ColumnLoop(ws, w, 1, Zero, 0)

ShouldInferWithoutFlag(initialized, w) == w # 0

\* if (!this.columnWidthsInitialized && tableWidth)
ShouldInfer(initialized, w) == ~initialized /\ w # 0

\* the inference loop of lines 331-338; th[i] is the offsetWidth of header
\* cell i
InferWeights(ws, th, w) ==
  [i \in ColumnIndex |-> IF ws[i].num = 0 THEN Rat(100 * th[i], w) ELSE ws[i]]

\* updateWeights(), with the header cells measuring th
updateWeights(th) ==
  LET infer == ShouldInfer(columnWidthsInitialized, tableWidth)
      ws    == IF infer THEN InferWeights(weight, th, tableWidth) ELSE weight
  IN  /\ weight' = ws
      /\ columnWidthsInitialized' = (columnWidthsInitialized \/ infer)
      /\ colWidths' = applyColumnWeights(ws, tableWidth, colWidths)

\* the header cells are measured only by an inference
Measurements ==
  IF ShouldInfer(columnWidthsInitialized, tableWidth)
    THEN [ColumnIndex -> 0..MaxTh]
    ELSE {[i \in ColumnIndex |-> 0]}

\* the constructor's call of updateWeights(), then bindEvent()
Construct ==
  /\ ~mounted
  /\ \E th \in Measurements : updateWeights(th)
  /\ mounted' = TRUE
  /\ UNCHANGED tableWidth
  /\ UNCHANGED <<cmpVars, posVars, menuVars, sortVars>>

\* the container changes its width
ContainerResize(w) ==
  /\ mounted
  /\ w # tableWidth
  /\ tableWidth' = w
  /\ UNCHANGED <<weight, columnWidthsInitialized, colWidths, mounted>>
  /\ UNCHANGED <<cmpVars, posVars, menuVars, sortVars>>

\* the resize sensor's listener runs updateWeights() (throttled: not
\* necessarily after every change of the width)
OnResize ==
  /\ mounted
  /\ \E th \in Measurements : updateWeights(th)
  /\ UNCHANGED <<tableWidth, mounted>>
  /\ UNCHANGED <<cmpVars, posVars, menuVars, sortVars>>

(***************************************************************************)
(* DataGrid: append, the header click handler, sortNodes                   *)
(***************************************************************************)

\* Rows appended to the grid.
MaxRows == 3

\* cell texts: "2", "10", "_a"
CellValues == { <<50>>, <<49, 48>>, <<95, 97>> }

SortableIds == {Columns[c].id : c \in {d \in ColumnIndex : Columns[d].sortable}}

\* row data: a value for each sortable column
Rows == [SortableIds -> CellValues]

\* column.comparator || naturalOrderComparator: no column of Columns has a
\* comparator of its own
comparator(id, u, v) == naturalOrderComparator(u, v)

\* the function handed to nodes.sort
sortCompare(id, isAscending, r1, r2) ==
  IF isAscending THEN comparator(id, r1[id], r2[id])
                 ELSE comparator(id, r2[id], r1[id])

\* Array.prototype.sort, a stable sort: insertion of r into a sorted list
RECURSIVE Insert(_, _, _, _)
Insert(id, isAscending, r, sorted) ==
  IF sorted = <<>> THEN <<r>>
  ELSE IF sortCompare(id, isAscending, r, Head(sorted)) < 0
    THEN <<r>> \o sorted
    ELSE <<Head(sorted)>> \o Insert(id, isAscending, r, Tail(sorted))

RECURSIVE SortFrom(_, _, _, _)
SortFrom(id, isAscending, rest, sorted) ==
  IF rest = <<>> THEN sorted
  ELSE SortFrom(id, isAscending, Tail(rest), Insert(id, isAscending, Head(rest), sorted))

\* sortNodes(id, isAscending); renderData() rebuilds the table body in the
\* order of nodes
sortNodes(ns, id, isAscending) == SortFrom(id, isAscending, ns, <<>>)

ClearOtherOrdersNever(ord, c) == ord

\* $headerRow.find('th').each(...): rmAttr('data-order') on every other cell
ClearOtherOrders(ord, c) == [d \in ColumnIndex |-> IF d = c THEN ord[d] ELSE "none"]

\* append(data)
AppendRow(r) ==
  /\ Len(nodes) < MaxRows
  /\ nodes' = Append(nodes, r)
  /\ UNCHANGED <<order, lastId, lastAscending>>
  /\ UNCHANGED <<cmpVars, posVars, menuVars, gridVars>>

\* the click handler of the header cell of sortable column c; lastId and
\* lastAscending keep the arguments it hands to sortNodes
HeaderClick(c) ==
  /\ Columns[c].sortable
  /\ LET id          == Columns[c].id
         isAscending == order[c] # "descending"
         marked      == [order EXCEPT ![c] = IF isAscending THEN "descending"
                                                            ELSE "ascending"]
     IN  /\ nodes' = sortNodes(nodes, id, isAscending)
         /\ order' = ClearOtherOrders(marked, c)
         /\ lastId' = id
         /\ lastAscending' = isAscending
  /\ UNCHANGED <<cmpVars, posVars, menuVars, gridVars>>

(***************************************************************************)
(* Specifications                                                          *)
(***************************************************************************)

\* naturalOrderComparator(a, b) for every pair of strings of at most MaxLen code units
InitCmp ==
  /\ a \in Strings
  /\ b \in Strings
  /\ ret = 0
  /\ cmpPc = "call"
  /\ pos = NoPos
  /\ css = NoCss
  /\ posPc = "idle"
  /\ attached = {}
  /\ subMenu = [m \in Menus |-> None]
  /\ gen = [m \in Menus |-> 0]
  /\ highlighted = [m \in Menus |-> NoEl]
  /\ active = {}
  /\ glassPane = FALSE
  /\ weight = [i \in ColumnIndex |-> Zero]
  /\ columnWidthsInitialized = FALSE
  /\ tableWidth = 0
  /\ colWidths = <<>>
  /\ mounted = FALSE
  /\ nodes = <<>>
  /\ order = [c \in ColumnIndex |-> "none"]
  /\ lastId = None
  /\ lastAscending = TRUE

NextCmp ==
  \/ Compare

SpecCmp == InitCmp /\ [][NextCmp]_vars

\* positionContent for every anchor point, window and content size within the bounds
InitPos ==
  /\ a = <<>>
  /\ b = <<>>
  /\ ret = 0
  /\ cmpPc = "idle"
  /\ pos \in PosInputs
  /\ css = NoCss
  /\ posPc = "call"
  /\ attached = {}
  /\ subMenu = [m \in Menus |-> None]
  /\ gen = [m \in Menus |-> 0]
  /\ highlighted = [m \in Menus |-> NoEl]
  /\ active = {}
  /\ glassPane = FALSE
  /\ weight = [i \in ColumnIndex |-> Zero]
  /\ columnWidthsInitialized = FALSE
  /\ tableWidth = 0
  /\ colWidths = <<>>
  /\ mounted = FALSE
  /\ nodes = <<>>
  /\ order = [c \in ColumnIndex |-> "none"]
  /\ lastId = None
  /\ lastAscending = TRUE

NextPos ==
  \/ Position

SpecPos == InitPos /\ [][NextPos]_vars

\* the menu tree after construction, driven by the application and the mouse
InitMenu ==
  /\ a = <<>>
  /\ b = <<>>
  /\ ret = 0
  /\ cmpPc = "idle"
  /\ pos = NoPos
  /\ css = NoCss
  /\ posPc = "idle"
  /\ attached = {}
  /\ subMenu = [m \in Menus |-> None]
  /\ gen = [m \in Menus |-> 0]
  /\ highlighted = [m \in Menus |-> NoEl]
  /\ active = {}
  /\ glassPane = FALSE
  /\ weight = [i \in ColumnIndex |-> Zero]
  /\ columnWidthsInitialized = FALSE
  /\ tableWidth = 0
  /\ colWidths = <<>>
  /\ mounted = FALSE
  /\ nodes = <<>>
  /\ order = [c \in ColumnIndex |-> "none"]
  /\ lastId = None
  /\ lastAscending = TRUE

NextMenu ==
  \/ Show
  \/ Hide
  \/ HideAll
  \/ GlassPaneClick
  \/ \E m \in Menus : \E i \in ItemsOf(m) : MouseOver(m, i)
  \/ \E m \in Menus : \E i \in ItemsOf(m) : MouseLeave(m, i)
  \/ \E m \in Menus : \E i \in ItemsOf(m) : ItemClick(m, i)

SpecMenu == InitMenu /\ [][NextMenu]_vars

\* a grid about to be constructed, with any explicit weights and any container width
InitGrid ==
  /\ a = <<>>
  /\ b = <<>>
  /\ ret = 0
  /\ cmpPc = "idle"
  /\ pos = NoPos
  /\ css = NoCss
  /\ posPc = "idle"
  /\ attached = {}
  /\ subMenu = [m \in Menus |-> None]
  /\ gen = [m \in Menus |-> 0]
  /\ highlighted = [m \in Menus |-> NoEl]
  /\ active = {}
  /\ glassPane = FALSE
  /\ weight \in [ColumnIndex -> {Rat(w, 1) : w \in 0..MaxWeight}]
  /\ columnWidthsInitialized = FALSE
  /\ tableWidth \in Widths
  /\ colWidths = <<>>
  /\ mounted = FALSE
  /\ nodes = <<>>
  /\ order = [c \in ColumnIndex |-> "none"]
  /\ lastId = None
  /\ lastAscending = TRUE

NextGrid ==
  \/ Construct
  \/ \E w \in Widths : ContainerResize(w)
  \/ OnResize

SpecGrid == InitGrid /\ [][NextGrid]_vars

\* an empty grid, rows appended and headers clicked
InitSort ==
  /\ a = <<>>
  /\ b = <<>>
  /\ ret = 0
  /\ cmpPc = "idle"
  /\ pos = NoPos
  /\ css = NoCss
  /\ posPc = "idle"
  /\ attached = {}
  /\ subMenu = [m \in Menus |-> None]
  /\ gen = [m \in Menus |-> 0]
  /\ highlighted = [m \in Menus |-> NoEl]
  /\ active = {}
  /\ glassPane = FALSE
  /\ weight = [i \in ColumnIndex |-> Zero]
  /\ columnWidthsInitialized = FALSE
  /\ tableWidth = 0
  /\ colWidths = <<>>
  /\ mounted = FALSE
  /\ nodes = <<>>
  /\ order = [c \in ColumnIndex |-> "none"]
  /\ lastId = None
  /\ lastAscending = TRUE

NextSort ==
  \/ \E r \in Rows : AppendRow(r)
  \/ \E c \in ColumnIndex : HeaderClick(c)

SpecSort == InitSort /\ [][NextSort]_vars


(***************************************************************************)
(* Claims about naturalOrderComparator (SpecCmp)                           *)
(***************************************************************************)

\* the chunks the loop takes from a string, in order
RECURSIVE Chunks(_)
Chunks(s) ==
  IF s = <<>> THEN <<>>
  ELSE <<Chunk(s)>> \o Chunks(Substring(s, Len(Chunk(s))))

IsDigitRun(c) == c # <<>> /\ \A i \in 1..Len(c) : IsDigit(c[i])

\* the positions at which two chunk sequences, equal in all chunks before,
\* both have some chunk
SharedPrefixEnds(cs, ct) ==
  {k \in 1..Min(Len(cs), Len(ct)) : \A j \in 1..(k - 1) : cs[j] = ct[j]}

\* after the same leading chunks, cs has a digit run of smaller value than
\* ct's
SmallerDigitRun(cs, ct) ==
  \E k \in SharedPrefixEnds(cs, ct) :
     /\ IsDigitRun(cs[k]) /\ IsDigitRun(ct[k])
     /\ DigitsValue(cs[k]) < DigitsValue(ct[k])

\* C5: for two strings that do not start with an underscore, share the same
\* leading chunks and then each have a digit run, the string whose digit run
\* has the smaller numeric value sorts first (negative result, and positive
\* with the arguments swapped), whatever the number of digits of each run.
C5_DigitRunsCompareNumerically ==
  (cmpPc = "done" /\ ~StartWith(a, Underscore) /\ ~StartWith(b, Underscore))
    => LET ca == Chunks(a)
           cb == Chunks(b)
       IN  /\ SmallerDigitRun(ca, cb) => ret < 0
           /\ SmallerDigitRun(cb, ca) => ret > 0

\* a compared pair where the smaller number has fewer digits and the code-unit
\* order of the strings is the opposite one ("11" and "100")
C5_Witness ==
  /\ cmpPc = "done"
  /\ ~StartWith(a, Underscore) /\ ~StartWith(b, Underscore)
  /\ SmallerDigitRun(Chunks(a), Chunks(b))
  /\ StrLess(b, a)
  /\ ret < 0

\* two chunks the loop consumes without returning: numeric with the same
\* value and length, or the same run of non-digits
Consumed(chunka, chunkb) ==
  IF ~IsNaN(chunka) /\ ~IsNaN(chunkb)
    THEN ToNumber(chunka) = ToNumber(chunkb) /\ Len(chunka) = Len(chunkb)
    ELSE chunka = chunkb

\* the positions of the chunk pairs that are the current chunks of some
\* iteration of the loop
CurrentChunks(cs, ct) ==
  {k \in 1..Min(Len(cs), Len(ct)) : \A j \in 1..(k - 1) : Consumed(cs[j], ct[j])}

\* the positions where the loop meets two numeric chunks of equal value and
\* different lengths
NumericTies(cs, ct) ==
  {k \in CurrentChunks(cs, ct) :
     /\ ~IsNaN(cs[k]) /\ ~IsNaN(ct[k])
     /\ ToNumber(cs[k]) = ToNumber(ct[k])
     /\ Len(cs[k]) # Len(ct[k])}

\* of two chunks of a and b, the shorter one decides the result for its string
ShorterFirst(chunka, chunkb) ==
  IF Len(chunka) < Len(chunkb) THEN ret < 0 ELSE ret > 0

\* of two chunks of a and b, the longer one decides the result for its string
LongerFirst(chunka, chunkb) ==
  IF Len(chunka) > Len(chunkb) THEN ret < 0 ELSE ret > 0

\* C6 as claimed: when the loop's two current chunks are numeric, of equal
\* value and of different lengths: if
\* neither value is zero the chunk with fewer characters sorts first,
\* otherwise the chunk with the longer digit string sorts first.
C6_Original ==
  (cmpPc = "done" /\ StartWith(a, Underscore) = StartWith(b, Underscore)) =>
    LET ca == Chunks(a)
        cb == Chunks(b)
    IN  \A k \in NumericTies(ca, cb) :
           IF ToNumber(ca[k]) # 0 THEN ShorterFirst(ca[k], cb[k])
                                  ELSE LongerFirst(ca[k], cb[k])

\* C6 amended: when the loop's two current chunks are numeric, of equal
\* value and of different lengths: if
\* both values are zero the chunk with fewer characters sorts first,
\* otherwise the chunk with the longer digit string sorts first.
C6_NumericTieBreak ==
  (cmpPc = "done" /\ StartWith(a, Underscore) = StartWith(b, Underscore)) =>
    LET ca == Chunks(a)
        cb == Chunks(b)
    IN  \A k \in NumericTies(ca, cb) :
           IF ToNumber(ca[k]) = 0 THEN ShorterFirst(ca[k], cb[k])
                                  ELSE LongerFirst(ca[k], cb[k])

\* a tie of two non-zero numbers decided for the longer digit string ("01"
\* against "1")
C6_Witness ==
  /\ cmpPc = "done"
  /\ StartWith(a, Underscore) = StartWith(b, Underscore)
  /\ LET ca == Chunks(a)
         cb == Chunks(b)
     IN  \E k \in NumericTies(ca, cb) :
            ToNumber(ca[k]) # 0 /\ Len(ca[k]) > Len(cb[k])
  /\ ret < 0

(***************************************************************************)
(* Claims about Menu.positionContent (SpecPos)                             *)
(***************************************************************************)

\* C2: for every anchor point inside the viewport, every natural content
\* size and every optional parent width, the rectangle positionContent
\* yields stays within the viewport.
C2_StaysWithinViewport ==
  posPc = "done" =>
    /\ css.left >= 0
    /\ css.top >= 0
    /\ css.left + css.width <= pos.winWidth
    /\ css.top + css.height <= pos.winHeight

\* C9 as claimed: the menu opens leftward whenever there is more room to the
\* left of the anchor than to the right of it.
C9_Original ==
  (posPc = "done" /\ pos.x > pos.winWidth - pos.x)
    => css.left = pos.x - css.width - ParentWidth(pos)

\* C9 amended: the menu opens leftward (left = x - width - parentWidth)
\* exactly when the room to the right of the anchor is less than the computed
\* width and the room to the left of the parent menu (x - parentWidth) is
\* more than the room to the right; in every other case left = x.
C9_FlipsLeftward ==
  posPc = "done" =>
    css.left = IF /\ pos.winWidth - pos.x < css.width
                  /\ pos.x - ParentWidth(pos) > pos.winWidth - pos.x
                 THEN pos.x - css.width - ParentWidth(pos)
                 ELSE pos.x

\* a menu shown under a parent of positive width and flipped to the left of it
C9_Witness ==
  /\ posPc = "done"
  /\ pos.parent # NoParent /\ pos.parent > 0
  /\ css.width > 0
  /\ css.left = pos.x - css.width - pos.parent

(***************************************************************************)
(* Claims about the Menu (SpecMenu)                                        *)
(***************************************************************************)

\* the menus that items of m open
SubMenusOf(m) == {MenuItems[m][i].submenu : i \in ItemsOf(m)} \ {None}

\* the submenus of m whose container is in the document
ShownSubMenus(m) == SubMenusOf(m) \cap attached

\* C1: at most one submenu of a menu is shown at any time; a mouseover on an
\* item with a submenu leaves exactly that submenu shown (a different one
\* shown before is hidden), and a mouseover on an item without a submenu
\* leaves no submenu of that menu shown.
C1_OneSubMenuShown ==
  /\ [](\A m \in Menus : Cardinality(ShownSubMenus(m)) <= 1)
  /\ [][\A m \in Menus : \A i \in ItemsOf(m) :
          MouseOver(m, i) =>
            ShownSubMenus(m)' = IF MenuItems[m][i].submenu # None
                                  THEN {MenuItems[m][i].submenu}
                                  ELSE {}]_vars

\* sub2 is the shown submenu of root after sub1, with its own submenu sub3,
\* had been shown
C1_Witness ==
  /\ ShownSubMenus("root") = {"sub2"}
  /\ subMenu["root"] = "sub2"
  /\ gen["sub1"] > 0 /\ gen["sub3"] > 0
  /\ attached = {"root", "sub2"}

\* C8: after hide() on a shown top-level menu, and after hideAll(), neither
\* the menu's container, nor a submenu's container, nor the glass pane with
\* its click listener is attached to the document.
C8_HideDetachesEverything ==
  [][(Hide \/ HideAll) => (attached' = {} /\ ~glassPane')]_vars

\* the elements of menu m that carry the class "active"
ActiveOf(m) == {e \in active : e.menu = m}

\* C10: at most one item element of a menu carries the class "active", and it
\* is the element the menu's highlighted field refers to; a mouseleave clears
\* the highlight unless the item left is the anchor item of the submenu that
\* is still open.
C10_SingleHighlight ==
  /\ [](\A m \in Menus :
          ActiveOf(m) = IF highlighted[m] = NoEl THEN {} ELSE {highlighted[m]})
  /\ [][\A m \in Menus : \A i \in ItemsOf(m) :
          MouseLeave(m, i) =>
            highlighted'[m] =
              IF /\ MenuItems[m][i].submenu # None
                 /\ subMenu[m] = MenuItems[m][i].submenu
                 /\ subMenu[m] \in attached
                THEN highlighted[m]
                ELSE NoEl]_vars

\* sub1 is open under its highlighted anchor item, and was rendered again
\* while an element of its earlier rendering was highlighted: that element,
\* no longer in the menu, is the one that carries "active"
C10_Witness ==
  /\ subMenu["root"] = "sub1" /\ "sub1" \in attached
  /\ highlighted["root"] = CurrentEl("root", 1)
  /\ highlighted["sub1"] # NoEl
  /\ highlighted["sub1"].gen < gen["sub1"]
  /\ ActiveOf("sub1") = {highlighted["sub1"]}

(***************************************************************************)
(* Claims about the DataGrid layout (SpecGrid)                             *)
(***************************************************************************)

RECURSIVE SumSeq(_)
SumSeq(q) == IF q = <<>> THEN 0 ELSE Head(q) + SumSeq(Tail(q))

\* a step that is a call of updateWeights()
UpdateWeightsCall == Construct \/ OnResize

\* C3: for any column weights and any positive container width W,
\* applyColumnWeights emits for each of the n columns a width of at least
\* 14 px, and the widths sum to at least W - n * 1.
C3_WidthsFillContainer ==
  [][(UpdateWeightsCall /\ tableWidth > 0) =>
       /\ Len(colWidths') = Len(Columns)
       /\ \A i \in ColumnIndex : colWidths'[i] >= minColumnWidth
       /\ SumSeq(colWidths') >= tableWidth - Len(Columns) * 1]_vars

\* C7: weight inference runs at the first call of updateWeights that measures
\* a non-zero container width (giving each column that lacks a weight the
\* weight 100 * thWidth / tableWidth) and at no later call: once
\* columnWidthsInitialized is true no weight changes, and a column constructed
\* with an explicit non-zero weight never has its weight changed.
C7_WeightsInferredOnce ==
  /\ [][columnWidthsInitialized => (weight' = weight /\ columnWidthsInitialized')]_vars
  /\ [][\A i \in ColumnIndex : weight[i].num # 0 => weight'[i] = weight[i]]_vars
  /\ [][UpdateWeightsCall =>
          columnWidthsInitialized' = (columnWidthsInitialized \/ tableWidth > 0)]_vars
  /\ [][(UpdateWeightsCall /\ ~columnWidthsInitialized /\ tableWidth > 0) =>
          \A i \in ColumnIndex :
             weight[i].num = 0 =>
               \E t \in 0..MaxTh : weight'[i] = Rat(100 * t, tableWidth)]_vars
  /\ [][~UpdateWeightsCall => weight' = weight]_vars

\* after the inference: an explicit weight, an inferred weight that is not
\* an integer and an inferred weight of 0 (a header cell 0 px wide); the
\* container has another width than at the inference and is laid out for it
C7_Witness ==
  /\ columnWidthsInitialized
  /\ \E i \in ColumnIndex : weight[i].den > 1
  /\ \E i \in ColumnIndex : weight[i].num = 0
  /\ \E i \in ColumnIndex : weight[i].den = 1 /\ weight[i].num > 0
  /\ tableWidth > 0
  /\ \E i \in ColumnIndex : tableWidth % weight[i].den # 0
  /\ colWidths = applyColumnWeights(weight, tableWidth, <<>>)

(***************************************************************************)
(* Claims about the DataGrid sort (SpecSort)                               *)
(***************************************************************************)

\* ns is in the order of column id, ascending or descending, under the
\* default comparator
IsSorted(ns, id, isAscending) ==
  \A i, j \in 1..Len(ns) :
     i < j => IF isAscending
                THEN naturalOrderComparator(ns[i][id], ns[j][id]) <= 0
                ELSE naturalOrderComparator(ns[i][id], ns[j][id]) >= 0

\* the number of rows of ns equal to r
Count(ns, r) == Cardinality({i \in 1..Len(ns) : ns[i] = r})

\* C4: the first click on a sortable header, and the first click on it after
\* a different header was clicked, sorts the rows ascending; each further
\* consecutive click on the same header alternates the direction; and after
\* every click no header other than the clicked one carries a sort-direction
\* indicator.
C4_SortToggles ==
  [][\A c \in ColumnIndex :
       HeaderClick(c) =>
         /\ lastAscending' = IF lastId = Columns[c].id THEN ~lastAscending ELSE TRUE
         /\ IsSorted(nodes', Columns[c].id, lastAscending')
         /\ \A r \in Rows : Count(nodes', r) = Count(nodes, r)
         /\ \A d \in ColumnIndex \ {c} : order'[d] = "none"]_vars

\* three rows in descending order of "site", the header clicked last, whose
\* "name" values are not in descending order
C4_Witness ==
  /\ lastId = "site" /\ ~lastAscending
  /\ Len(nodes) = 3
  /\ naturalOrderComparator(nodes[1]["site"], nodes[3]["site"]) > 0
  /\ naturalOrderComparator(nodes[1]["name"], nodes[3]["name"]) < 0
  /\ order[2] = "ascending"

====
